---- MODULE Spec2Model ----
(***************************************************************************)
(* The authoritative simulation core of src/multiplayerServer.js           *)
(* (class MultiplayerServer) as a state machine.                           *)
(*                                                                         *)
(* Units.  Time is in milliseconds (Date.now()).  Lengths are in tenths of *)
(* a world unit, so the spawn height 1.8 is 18, the hit radius 0.8 is 8    *)
(* and one tick moves a bullet by direction * 50 * 0.016 = direction * 0.8 *)
(* world units, i.e. direction * 8 tenths.  Directions are drawn from a    *)
(* small set of integer vectors, for which this arithmetic is exact.       *)
(*                                                                         *)
(* Event loop.  Node runs every handler and timer callback to completion,  *)
(* one at a time; every action below is one whole callback.  A setTimeout  *)
(* callback runs at its due time: time does not advance past a due timer,  *)
(* while any other handler may run before or after it in that millisecond. *)
(* The setInterval loops (tick, broadcast, sweep) may run at any instant.  *)
(***************************************************************************)
EXTENDS Integers, Sequences, FiniteSets, TLC

\* ------------------------------------------------------------------ bounds
MaxPlayers == 2       \* connections accepted: socket ids 1..MaxPlayers, never reused
MaxRequests == 2    \* connections and peer requests followed
MaxLive == 2          \* a fire request arrives while fewer than MaxLive bullets are in flight
StartTime == 100000   \* Date.now() when the model starts
Horizon == 3200       \* time is followed up to StartTime + Horizon
IdleBefore == 60000   \* a player of the initial state may have been idle this long
MaxTick == 2          \* ticks followed
CapOwners == 20       \* players of the server with a full store
CapSlack == 1         \* how far below MAX_BULLETS that store may start
PendingSince == 1500  \* how long ago the kill of the server with a dead player was
CapHorizon == 1       \* time is followed from that store up to StartTime + CapHorizon
CrowdSize == 3       \* players of the crowded server

\* --------------------------------------------------------- program constants
MAX_BULLETS == 500
FIRE_INTERVAL == 100
RELOAD_DELAY == 2000
RESPAWN_DELAY == 3000
MAG_SIZE == 30
RESERVE_SIZE == 120
START_HEALTH == 100
BULLET_SPEED == 50
BULLET_DAMAGE == 25
BULLET_LIFETIME == 3000
INACTIVE_MS == 60000
HIT_RADIUS == 8
SPAWN_Y == 18
RESPAWN_SPAN == 50
DELTA_MS == 16
MAX_SPEED == 50

Ids == 1..MaxPlayers

VARIABLES
  now,        \* Date.now()
  sockets,    \* ids of the connections that are open
  players,    \* this.players: the keys of the Map, in insertion order
  obj,        \* the player objects, by id: those in the Map and those a pending timer still holds
  bullets,    \* this.bullets: the values of the Map, in insertion order
  timers,     \* the pending setTimeout callbacks, in the order they were set
  tick,       \* this.gameState.tick
  joined,     \* the connections accepted so far (socket.id of the last one)
  requests,   \* the connections and peer requests handled so far
  out,        \* the messages the last callback emitted, in order
  ev          \* the callback that ran last, with its input

vars == <<now, sockets, players, obj, bullets, timers, tick, joined, requests, out, ev>>

\* ----------------------------------------------------------------- helpers
Range(s) == {s[i] : i \in 1..Len(s)}

InStore(p) == p \in Range(players)

Vec(x, y, z) == [x |-> x, y |-> y, z |-> z]

RemoveAt(s, i) == SubSeq(s, 1, i - 1) \o SubSeq(s, i + 1, Len(s))

Remove(s, e) == SelectSeq(s, LAMBDA x : x # e)

\* An object nothing refers to any more is gone: it is in the Map or held by a timer.
Live(o, ps, ts) == {p \in DOMAIN o : p \in Range(ps) \/ \E i \in 1..Len(ts) : ts[i].p = p}

Collect(o, ps, ts) == [p \in Live(o, ps, ts) |-> o[p]]

\* ------------------------------------------------------------ input domains
\* a position as a peer sends it: three numbers, or (wellFormed = FALSE) no
\* position at all or one whose x or z is not a number
Pos(x, y, z) == [x |-> x, y |-> y, z |-> z, wellFormed |-> TRUE]

NoPos == [x |-> 0, y |-> 0, z |-> 0, wellFormed |-> FALSE]

\* what is left of such a position in a bullet: arithmetic on it gives NaN
NotAPoint == [nan |-> TRUE]

IsPoint(v) == "x" \in DOMAIN v

\* a velocity as a peer sends it, in hundredths of a unit per tick ("centi"), in
\* units of 1e197 ("huge": finite doubles whose squares are not), with components
\* that are no numbers ("text"), or none
Vel(kind, x, z) == [kind |-> kind, x |-> x, z |-> z]

NoVel == Vel("none", 0, 0)

\* the payload of a player-update; given = FALSE is an event without payload
UpdateData(pos, rot, vel) == [given |-> TRUE, position |-> pos, rotation |-> rot, velocity |-> vel]

\* the payload of a player-fire
FireData(pos, dir) == [given |-> TRUE, position |-> pos, direction |-> dir]

NoData == [given |-> FALSE]

\* data.rotation when the payload has none
NoRot == [none |-> TRUE]

\* two ticks in front of the spawn point
FirePositions == {Pos(-16, SPAWN_Y, 0)}

FireDirections == {Vec(1, 0, 0)}

\* Math.random() in thousandths
RandomPairs == {<<500, 500>>, <<0, 998>>}

\* ---------------------------------------------------------- initializePlayer
NewPlayer(p, t) ==
  [id |-> p,
   position |-> Vec(0, SPAWN_Y, 0),
   rotation |-> Vec(0, 0, 0),
   velocity |-> Vel("centi", 0, 0),
   health |-> START_HEALTH,
   maxHealth |-> START_HEALTH,
   ammo |-> MAG_SIZE,
   totalAmmo |-> RESERVE_SIZE,
   isReloading |-> FALSE,
   lastUpdate |-> t,
   lastFireTime |-> 0,
   name |-> <<"Player_", p>>,
   kills |-> 0,
   deaths |-> 0,
   connected |-> TRUE]

\* setupSocketHandlers: a connection arrives and initializePlayer runs
Connect(p) ==
  /\ p = joined + 1
  /\ p \in Ids
  /\ joined' = p
  /\ sockets' = sockets \cup {p}
  /\ players' = Append(players, p)
  /\ obj' = [q \in DOMAIN obj \cup {p} |-> IF q = p THEN NewPlayer(p, now) ELSE obj[q]]
  /\ out' = << [type |-> "game-init", to |-> p, playerId |-> p, players |-> players', tick |-> tick],
               [type |-> "player-joined", to |-> "others", playerId |-> p] >>
  /\ ev' = [op |-> "connect", p |-> p, raised |-> FALSE, data |-> NoData]
  /\ UNCHANGED <<now, bullets, timers, tick>>

\* ----------------------------------------------------------- isValidPosition
MAP_LIMIT == 10000

Abs(n) == IF n < 0 THEN -n ELSE n

isValidPositionInside(pos) ==
  /\ pos.wellFormed
  /\ ~(Abs(pos.x) >= MAP_LIMIT \/ Abs(pos.z) >= MAP_LIMIT)

isValidPosition(pos) ==
  /\ pos.wellFormed
  /\ ~(Abs(pos.x) > MAP_LIMIT \/ Abs(pos.z) > MAP_LIMIT)

\* --------------------------------------------------------- handlePlayerUpdate
\* Math.sqrt of a square number of the inputs
Sqrt(n) == CHOOSE r \in 0..n : r * r <= n /\ n < (r + 1) * (r + 1)

SpeedSquared(v) == v.x * v.x + v.z * v.z

\* speed > maxSpeed: the squares of a "huge" velocity are Infinity, and so is its
\* speed unless it is zero; the speed of a "text" velocity is NaN, which is not
\* greater than anything
TooFast(v) ==
  CASE v.kind = "centi" -> SpeedSquared(v) > MAX_SPEED * MAX_SPEED
    [] v.kind = "huge" -> v.x # 0 \/ v.z # 0
    [] OTHER -> FALSE

\* factor = maxSpeed / speed, and both components times factor; maxSpeed /
\* Infinity is 0, and a finite number times 0 is the number 0
Normalized(v) ==
  IF v.kind = "huge" THEN Vel("centi", 0, 0)
  ELSE Vel(v.kind, (v.x * MAX_SPEED) \div Sqrt(SpeedSquared(v)),
                   (v.z * MAX_SPEED) \div Sqrt(SpeedSquared(v)))

\* data.velocity after the anti-cheat block, or { x: 0, z: 0 } when there is none
StoredVelocity(v) ==
  IF v.kind = "none" THEN Vel("centi", 0, 0)
  ELSE IF TooFast(v) THEN Normalized(v)
  ELSE v

\* reading data.position of a missing payload raises a TypeError (line 76), after
\* the lookup of the player
UpdateRaises(p, data) == InStore(p) /\ ~data.given

UpdateAccepted(p, data) == InStore(p) /\ data.given /\ isValidPosition(data.position)

handlePlayerUpdate(p, data) ==
  /\ p \in sockets
  /\ ev' = [op |-> "update", p |-> p, raised |-> UpdateRaises(p, data), data |-> data]
  /\ out' = << >>
  /\ IF UpdateAccepted(p, data)
       THEN obj' = [obj EXCEPT ![p].position = Vec(data.position.x, data.position.y, data.position.z),
                               ![p].rotation = data.rotation,
                               ![p].velocity = StoredVelocity(data.velocity),
                               ![p].lastUpdate = now]
       ELSE obj' = obj
  /\ UNCHANGED <<now, sockets, players, bullets, timers, tick, joined>>

\* ---------------------------------------------------------------- startReload
\* sets the flag and registers the completion callback
startReloadPlayer(pl) == [pl EXCEPT !.isReloading = TRUE]

startReloadTimer(p, t) == [kind |-> "reload", p |-> p, due |-> t + RELOAD_DELAY]

\* ----------------------------------------------------------- handlePlayerFire
\* { ...data.position }
Spread(pos) == IF pos.wellFormed THEN Vec(pos.x, pos.y, pos.z) ELSE NotAPoint

NewBulletSwapped(p, pos, dir, t) ==
  [id |-> <<p, t>>, playerId |-> p, position |-> Spread(pos), direction |-> dir,
   speed |-> BULLET_DAMAGE, damage |-> BULLET_SPEED, createdAt |-> t, lifetime |-> BULLET_LIFETIME]

NewBullet(p, pos, dir, t) ==
  [id |-> <<p, t>>,
   playerId |-> p,
   position |-> Spread(pos),
   direction |-> dir,
   speed |-> BULLET_SPEED,
   damage |-> BULLET_DAMAGE,
   createdAt |-> t,
   lifetime |-> BULLET_LIFETIME]

\* Array.from(entries).sort((a, b) => a.createdAt - b.createdAt)[0]: the sort is
\* stable, so the first of the entries with the least createdAt
\* sorted the other way round: the first of the entries with the greatest createdAt
NewestIndex(bs) ==
  CHOOSE i \in 1..Len(bs) :
    /\ \A j \in 1..Len(bs) : bs[j].createdAt <= bs[i].createdAt
    /\ \A j \in 1..(i - 1) : bs[j].createdAt < bs[i].createdAt

OldestIndex(bs) ==
  CHOOSE i \in 1..Len(bs) :
    /\ \A j \in 1..Len(bs) : bs[i].createdAt <= bs[j].createdAt
    /\ \A j \in 1..(i - 1) : bs[j].createdAt > bs[i].createdAt

LimitBullets(bs) == IF Len(bs) > MAX_BULLETS THEN RemoveAt(bs, OldestIndex(bs)) ELSE bs

FireBlocked(p) ==
  \/ ~InStore(p)
  \/ obj[p].health <= 0
  \/ obj[p].isReloading
  \/ obj[p].ammo <= 0

FireRateLimitedGlobal(p) == \E q \in Range(players) : now - obj[q].lastFireTime < FIRE_INTERVAL

FireRateLimited(p) == now - obj[p].lastFireTime < FIRE_INTERVAL

AutoReloadAlways(pl) == pl.ammo <= 0

AutoReload(pl) == pl.ammo <= 0 /\ pl.totalAmmo > 0

\* reading data.position of a missing payload raises a TypeError (line 121), after
\* the guards, the ammo and the auto reload
FireRaises(p, data) == ~(FireBlocked(p) \/ FireRateLimited(p)) /\ ~data.given

handlePlayerFire(p, data) ==
  /\ p \in sockets
  /\ ev' = [op |-> "fire", p |-> p, raised |-> FireRaises(p, data), data |-> data]
  /\ IF FireBlocked(p) \/ FireRateLimited(p)
       THEN /\ out' = << >>
            /\ UNCHANGED <<obj, bullets, timers>>
       ELSE LET fired == [obj[p] EXCEPT !.lastFireTime = now, !.ammo = @ - 1]
                reload == AutoReload(fired)
            IN  /\ obj' = [obj EXCEPT ![p] = IF reload THEN startReloadPlayer(fired) ELSE fired]
                /\ timers' = IF reload THEN Append(timers, startReloadTimer(p, now)) ELSE timers
                /\ IF ~data.given
                     THEN /\ bullets' = bullets
                          /\ out' = << >>
                     ELSE LET bullet == NewBullet(p, data.position, data.direction, now)
                          IN  /\ bullets' = LimitBullets(Append(bullets, bullet))
                              /\ out' = << [type |-> "player-fired", to |-> "all", playerId |-> p,
                                            bulletId |-> bullet.id, position |-> bullet.position,
                                            direction |-> bullet.direction, ammo |-> fired.ammo] >>
  /\ UNCHANGED <<now, sockets, players, tick, joined>>

\* --------------------------------------------------------- handlePlayerReload
\* without the test of the reserve
ReloadBlockedAnyReserve(p) ==
  \/ ~InStore(p)
  \/ obj[p].isReloading
  \/ obj[p].ammo >= MAG_SIZE

ReloadBlocked(p) ==
  \/ ~InStore(p)
  \/ obj[p].isReloading
  \/ obj[p].totalAmmo <= 0
  \/ obj[p].ammo >= MAG_SIZE

handlePlayerReload(p) ==
  /\ p \in sockets
  /\ ev' = [op |-> "reload", p |-> p, raised |-> FALSE, data |-> NoData]
  /\ out' = << >>
  /\ IF ReloadBlocked(p)
       THEN UNCHANGED <<obj, timers>>
       ELSE /\ obj' = [obj EXCEPT ![p] = startReloadPlayer(@)]
            /\ timers' = Append(timers, startReloadTimer(p, now))
  /\ UNCHANGED <<now, sockets, players, bullets, tick, joined>>

\* ------------------------------------------------------------------- timers
\* Timers of one delay run in the order they were set: the first pending timer of
\* a kind is the one that is due first.
FirstOfKind(i) == \A j \in 1..(i - 1) : timers[j].kind # timers[i].kind

Due(i) == timers[i].due <= now /\ FirstOfKind(i)

Min(a, b) == IF a < b THEN a ELSE b

\* tops up by what the reserve has, whatever the magazine holds
ReloadedPlayerTopUp(pl) ==
  [pl EXCEPT !.ammo = @ + Min(MAG_SIZE, pl.totalAmmo),
             !.totalAmmo = @ - Min(MAG_SIZE, pl.totalAmmo),
             !.isReloading = FALSE]

\* fills the magazine and leaves the reserve as it is
ReloadedPlayerFree(pl) ==
  [pl EXCEPT !.ammo = @ + Min(MAG_SIZE - pl.ammo, pl.totalAmmo), !.isReloading = FALSE]

ReloadedPlayerFull(pl) ==
  [pl EXCEPT !.ammo = MAG_SIZE, !.totalAmmo = @ - (MAG_SIZE - pl.ammo), !.isReloading = FALSE]

\* the callback startReload registers: it holds the player object, not its id
ReloadedPlayer(pl) ==
  LET ammoNeeded == MAG_SIZE - pl.ammo
      ammoToReload == Min(ammoNeeded, pl.totalAmmo)
  IN  [pl EXCEPT !.ammo = @ + ammoToReload,
                 !.totalAmmo = @ - ammoToReload,
                 !.isReloading = FALSE]

ReloadNotice(pl) ==
  << [type |-> "reload-complete", to |-> pl.id, ammo |-> pl.ammo, totalAmmo |-> pl.totalAmmo] >>

ReloadTimerFires(i) ==
  /\ i \in 1..Len(timers)
  /\ timers[i].kind = "reload"
  /\ Due(i)
  /\ LET p == timers[i].p
         done == ReloadedPlayer(obj[p])
         rest == RemoveAt(timers, i)
     IN  /\ timers' = rest
         /\ obj' = Collect([obj EXCEPT ![p] = done], players, rest)
         /\ out' = ReloadNotice(done)
         /\ ev' = [op |-> "reloadTimer", p |-> p, raised |-> FALSE, data |-> NoData]
  /\ UNCHANGED <<now, sockets, players, bullets, tick, joined>>

\* -------------------------------------------------------------- respawnPlayer
RandomCoordUncentred(r) == (r * RESPAWN_SPAN) \div 100

RandomCoord(r) == ((r - 500) * RESPAWN_SPAN) \div 100

respawnPlayer(pl, rnd) ==
  [pl EXCEPT !.health = pl.maxHealth,
             !.ammo = MAG_SIZE,
             !.totalAmmo = RESERVE_SIZE,
             !.isReloading = FALSE,
             !.position = Vec(RandomCoord(rnd[1]), SPAWN_Y, RandomCoord(rnd[2]))]

RespawnNotice(pl) ==
  << [type |-> "player-respawned", to |-> "all", playerId |-> pl.id,
      position |-> pl.position, health |-> pl.health] >>

RespawnTimerFires(i, rnd) ==
  /\ i \in 1..Len(timers)
  /\ timers[i].kind = "respawn"
  /\ Due(i)
  /\ LET p == timers[i].p
         back == respawnPlayer(obj[p], rnd)
         rest == RemoveAt(timers, i)
     IN  /\ timers' = rest
         /\ obj' = Collect([obj EXCEPT ![p] = back], players, rest)
         /\ out' = RespawnNotice(back)
         /\ ev' = [op |-> "respawnTimer", p |-> p, raised |-> FALSE, data |-> NoData]
  /\ UNCHANGED <<now, sockets, players, bullets, tick, joined>>

\* ----------------------------------------------------------- handleDisconnect
NotOwnedBy(p, bs) == SelectSeq(bs, LAMBDA b : b.playerId # p)

handleDisconnect(p) ==
  /\ p \in sockets
  /\ sockets' = sockets \ {p}
  /\ ev' = [op |-> "disconnect", p |-> p, raised |-> FALSE, data |-> NoData]
  /\ IF InStore(p)
       THEN /\ bullets' = NotOwnedBy(p, bullets)
            /\ players' = Remove(players, p)
            /\ obj' = Collect(obj, players', timers)
            /\ out' = << [type |-> "player-left", to |-> "others", playerId |-> p] >>
       ELSE /\ out' = << >>
            /\ UNCHANGED <<bullets, players, obj>>
  /\ UNCHANGED <<now, timers, tick, joined>>

\* -------------------------------------------------------------- updateBullets
Step(dir) == Vec((dir.x * BULLET_SPEED * DELTA_MS) \div 100,
                 (dir.y * BULLET_SPEED * DELTA_MS) \div 100,
                 (dir.z * BULLET_SPEED * DELTA_MS) \div 100)

Moved(b) ==
  IF IsPoint(b.position)
    THEN [b EXCEPT !.position = Vec(b.position.x + Step(b.direction).x,
                                    b.position.y + Step(b.direction).y,
                                    b.position.z + Step(b.direction).z)]
    ELSE b

ExpiredNever(b, t) == FALSE

Expired(b, t) == t - b.createdAt > b.lifetime

ExpiredNotice(b) == [type |-> "bullet-expired", to |-> "all", bulletId |-> b.id]

\* the bullets left in the Map, moved, and the notices for the deleted ones
updateBullets(bs, t) ==
  LET moved == [i \in 1..Len(bs) |-> Moved(bs[i])]
      gone == SelectSeq(moved, LAMBDA b : Expired(b, t))
  IN  [bullets |-> SelectSeq(moved, LAMBDA b : ~Expired(b, t)),
       out |-> [i \in 1..Len(gone) |-> ExpiredNotice(gone[i])]]

\* ------------------------------------------------------------ handlePlayerHit
handlePlayerHitBelowZero(w, ps, b, victim, t) ==
  IF ~(b.playerId \in Range(ps)) THEN w
  ELSE
    LET health == w.obj[victim].health - b.damage
        hit == [type |-> "player-hit", to |-> "all", hitPlayerId |-> victim,
                shooterId |-> b.playerId, damage |-> b.damage, newHealth |-> health,
                bulletId |-> b.id]
        hurt == [w.obj EXCEPT ![victim].health = health]
    IN  IF health < 0
          THEN [obj |-> [hurt EXCEPT ![victim].deaths = @ + 1, ![b.playerId].kills = @ + 1],
                timers |-> Append(w.timers, [kind |-> "respawn", p |-> victim, due |-> t + RESPAWN_DELAY]),
                out |-> w.out \o << hit, [type |-> "player-killed", to |-> "all",
                                          killedPlayerId |-> victim, killerId |-> b.playerId] >>]
          ELSE [obj |-> hurt, timers |-> w.timers, out |-> Append(w.out, hit)]

\* w is the world a tick works on: [obj, timers, out]
handlePlayerHit(w, ps, b, victim, t) ==
  IF ~(b.playerId \in Range(ps)) THEN w
  ELSE
    LET health == w.obj[victim].health - b.damage
        hit == [type |-> "player-hit", to |-> "all", hitPlayerId |-> victim,
                shooterId |-> b.playerId, damage |-> b.damage, newHealth |-> health,
                bulletId |-> b.id]
        hurt == [w.obj EXCEPT ![victim].health = health]
    IN  IF health <= 0
          THEN [obj |-> [hurt EXCEPT ![victim].deaths = @ + 1, ![b.playerId].kills = @ + 1],
                timers |-> Append(w.timers, [kind |-> "respawn", p |-> victim, due |-> t + RESPAWN_DELAY]),
                out |-> w.out \o << hit, [type |-> "player-killed", to |-> "all",
                                          killedPlayerId |-> victim, killerId |-> b.playerId] >>]
          ELSE [obj |-> hurt, timers |-> w.timers, out |-> Append(w.out, hit)]

\* ------------------------------------------------------ checkBulletCollisions
DistanceSquared(a, b) ==
  (a.x - b.x) * (a.x - b.x) + (a.y - b.y) * (a.y - b.y) + (a.z - b.z) * (a.z - b.z)

\* Math.sqrt(d2) < 0.8, in tenths
WithinHitRadius(a, b) == DistanceSquared(a, b) < HIT_RADIUS * HIT_RADIUS

\* without the test of the player's health
HittableAnyHealth(o, b, q) ==
  /\ b.playerId # q
  /\ IsPoint(b.position)
  /\ WithinHitRadius(b.position, o[q].position)

Hittable(o, b, q) ==
  /\ ~(b.playerId = q \/ o[q].health <= 0)
  /\ IsPoint(b.position)
  /\ WithinHitRadius(b.position, o[q].position)

\* the last player, in the Map's order, the bullet hits; 0 when there is none
LastHit(o, ps, b) ==
  IF \E i \in 1..Len(ps) : Hittable(o, b, ps[i])
    THEN ps[CHOOSE i \in 1..Len(ps) :
              /\ Hittable(o, b, ps[i])
              /\ \A j \in (i + 1)..Len(ps) : ~Hittable(o, b, ps[j])]
    ELSE 0

\* the first player, in the Map's order, the bullet hits; 0 when there is none
FirstHit(o, ps, b) ==
  IF \E i \in 1..Len(ps) : Hittable(o, b, ps[i])
    THEN ps[CHOOSE i \in 1..Len(ps) :
              /\ Hittable(o, b, ps[i])
              /\ \A j \in 1..(i - 1) : ~Hittable(o, b, ps[j])]
    ELSE 0

\* w is [obj, timers, out, bullets]: bullets are those kept so far
\* one turn of the loop over the bullets
CollideOne(w, ps, b, t) ==
  LET victim == FirstHit(w.obj, ps, b)
  IN  IF victim = 0
        THEN [w EXCEPT !.bullets = Append(@, b)]
        ELSE LET h == handlePlayerHit([obj |-> w.obj, timers |-> w.timers, out |-> w.out],
                                      ps, b, victim, t)
             IN  [obj |-> h.obj, timers |-> h.timers, out |-> h.out, bullets |-> w.bullets]

\* the one element of a set of one: a value computed once and then named
Only(S) == CHOOSE x \in S : TRUE

\* the turns for bs[lo..hi], in order: the first half, and then the second half in
\* the world the first half left
RECURSIVE CollideRange(_, _, _, _, _, _)
CollideRange(w, ps, bs, lo, hi, t) ==
  IF lo > hi THEN w
  ELSE IF lo = hi THEN CollideOne(w, ps, bs[lo], t)
  ELSE Only({CollideRange(first, ps, bs, ((lo + hi) \div 2) + 1, hi, t) :
               first \in {CollideRange(w, ps, bs, lo, (lo + hi) \div 2, t)}})

checkBulletCollisions(w, ps, bs, t) == CollideRange(w, ps, bs, 1, Len(bs), t)

\* ------------------------------------------------------ cleanupInactivePlayers
InactiveAtLimit(pl, t) == t - pl.lastUpdate >= INACTIVE_MS

Inactive(pl, t) == t - pl.lastUpdate > INACTIVE_MS

cleanupInactivePlayers(o, ps, t) == SelectSeq(ps, LAMBDA q : ~Inactive(o[q], t))

LeftNotices(o, ps, t) ==
  LET gone == SelectSeq(ps, LAMBDA q : Inactive(o[q], t))
  IN  [i \in 1..Len(gone) |-> [type |-> "player-left", to |-> "all", playerId |-> gone[i]]]

\* ------------------------------------------------------------ updateGameState
\* this.cleanupInactivePlayers(now), after the collisions left hit
AfterCollisions(hit, t) ==
  Only({[bullets |-> hit.bullets,
         timers |-> hit.timers,
         players |-> kept,
         obj |-> Collect(hit.obj, kept, hit.timers),
         out |-> hit.out \o LeftNotices(hit.obj, players, t)] :
          kept \in {cleanupInactivePlayers(hit.obj, players, t)}})

\* this.checkBulletCollisions() and what follows, after updateBullets left moved
AfterBullets(moved, t) ==
  Only({AfterCollisions(hit, t) :
          hit \in {checkBulletCollisions([obj |-> obj, timers |-> timers, out |-> moved.out,
                                          bullets |-> << >>], players, moved.bullets, t)}})

\* the collisions before the expiry
GameStateAfterCollisionsFirst(t) ==
  LET moved == [i \in 1..Len(bullets) |-> Moved(bullets[i])]
      hit == checkBulletCollisions([obj |-> obj, timers |-> timers, out |-> << >>,
                                    bullets |-> << >>], players, moved, t)
      gone == SelectSeq(hit.bullets, LAMBDA b : Expired(b, t))
      kept == cleanupInactivePlayers(hit.obj, players, t)
  IN  [bullets |-> SelectSeq(hit.bullets, LAMBDA b : ~Expired(b, t)),
       timers |-> hit.timers,
       players |-> kept,
       obj |-> Collect(hit.obj, kept, hit.timers),
       out |-> hit.out \o [i \in 1..Len(gone) |-> ExpiredNotice(gone[i])]
                 \o LeftNotices(hit.obj, players, t)]

\* what one run of updateGameState at time t leaves: updateBullets, then
\* checkBulletCollisions, then cleanupInactivePlayers
GameStateAfter(t) == Only({AfterBullets(moved, t) : moved \in {updateBullets(bullets, t)}})

updateGameState ==
  /\ tick < MaxTick
  /\ \E after \in {GameStateAfter(now)} :
       /\ tick' = tick + 1
       /\ bullets' = after.bullets
       /\ timers' = after.timers
       /\ players' = after.players
       /\ obj' = after.obj
       /\ out' = after.out
  /\ ev' = [op |-> "tick", p |-> 0, raised |-> FALSE, data |-> NoData]
  /\ UNCHANGED <<now, sockets, joined>>

\* ----------------------------------------------------------- startCleanupLoop
SweepBullets(bs, t) == SelectSeq(bs, LAMBDA b : ~(t - b.createdAt > b.lifetime))

startCleanupLoop ==
  /\ bullets' = SweepBullets(bullets, now)
  /\ out' = << >>
  /\ ev' = [op |-> "sweep", p |-> 0, raised |-> FALSE, data |-> NoData]
  /\ UNCHANGED <<now, sockets, players, obj, timers, tick, joined>>

\* ---------------------------------------------------------- sendClientUpdates
\* the player object as it is
PublicPlayerWhole(pl) == pl

PublicPlayer(pl) ==
  [id |-> pl.id, position |-> pl.position, rotation |-> pl.rotation, velocity |-> pl.velocity,
   health |-> pl.health, maxHealth |-> pl.maxHealth, name |-> pl.name,
   kills |-> pl.kills, deaths |-> pl.deaths]

PublicBullet(b) == [id |-> b.id, position |-> b.position, direction |-> b.direction]

GameUpdate ==
  [type |-> "game-update", to |-> "all",
   players |-> [i \in 1..Len(players) |-> PublicPlayer(obj[players[i]])],
   bullets |-> [i \in 1..Len(bullets) |-> PublicBullet(bullets[i])],
   tick |-> tick]

sendClientUpdates ==
  /\ out' = IF Len(players) = 0 THEN << >> ELSE <<GameUpdate>>
  /\ ev' = [op |-> "broadcast", p |-> 0, raised |-> FALSE, data |-> NoData]
  /\ UNCHANGED <<now, sockets, players, obj, bullets, timers, tick, joined>>

\* ------------------------------------------------------------------- time
\* The instants the model visits: StartTime, the next millisecond and one fire
\* interval later (two requests can be 0, 1, 99 or 100 ms apart, and a player idle
\* for IdleBefore at StartTime passes the inactivity limit between the first two),
\* every instant at which a pending timer is due, and for every bullet the last
\* instant of its lifetime and the first after it.
Offsets == {0, 1, FIRE_INTERVAL}

Instants ==
  {StartTime + o : o \in Offsets}
  \cup {timers[i].due : i \in 1..Len(timers)}
  \cup UNION {{bullets[i].createdAt + bullets[i].lifetime, bullets[i].createdAt + bullets[i].lifetime + 1}
                : i \in 1..Len(bullets)}

Later == {t \in Instants : t > now /\ t <= StartTime + Horizon}

\* Date.now() moves on to the next such instant; a timer that is due runs first.
Advance ==
  /\ \A i \in 1..Len(timers) : timers[i].due > now
  /\ Later # {}
  /\ now' = CHOOSE t \in Later : \A u \in Later : t <= u
  /\ out' = << >>
  /\ ev' = [op |-> "advance", p |-> 0, raised |-> FALSE, data |-> NoData]
  /\ UNCHANGED <<sockets, players, obj, bullets, timers, tick, joined>>

\* ------------------------------------------------------------ specification
\* A server that has been running: up to MaxPlayers players are in the store, each
\* as initializePlayer made it or in a state play leads to (shots fired and
\* reloads done, hits taken, no input for IdleBefore).
Profiles ==
  { [ammo |-> MAG_SIZE, totalAmmo |-> RESERVE_SIZE, health |-> START_HEALTH, idle |-> 0],
    [ammo |-> 1, totalAmmo |-> RESERVE_SIZE, health |-> BULLET_DAMAGE, idle |-> IdleBefore],
    [ammo |-> 1, totalAmmo |-> 5, health |-> START_HEALTH, idle |-> IdleBefore],
    [ammo |-> 1, totalAmmo |-> 0, health |-> BULLET_DAMAGE, idle |-> 0] }

Veteran(p, f) ==
  [NewPlayer(p, StartTime - f.idle) EXCEPT !.ammo = f.ammo, !.totalAmmo = f.totalAmmo,
                                           !.health = f.health]

Init ==
  /\ now = StartTime
  /\ \E n \in 0..MaxPlayers :
       /\ sockets = 1..n
       /\ players = [i \in 1..n |-> i]
       /\ joined = n
       /\ \E f \in [1..n -> Profiles] : obj = [p \in 1..n |-> Veteran(p, f[p])]
  /\ requests = 0
  /\ bullets = << >>
  /\ timers = << >>
  /\ tick = 0
  /\ out = << >>
  /\ ev = [op |-> "init", p |-> 0, raised |-> FALSE, data |-> NoData]

UpdateInputs ==
  { UpdateData(Pos(0, SPAWN_Y, 0), Vec(0, 0, 0), Vel("centi", 0, 0)),
    UpdateData(Pos(MAP_LIMIT + 1, SPAWN_Y, 0), Vec(0, 0, 0), Vel("centi", 0, 0)) }

FireInputs == {FireData(pos, dir) : pos \in FirePositions, dir \in FireDirections}

\* a connection or a peer request arrives
Arrives == requests < MaxRequests /\ requests' = requests + 1

\* a timer or a loop of the server runs, or time passes
Internal == requests' = requests

Next ==
  \/ \E p \in Ids : Arrives /\ Connect(p)
  \/ \E p \in Ids, data \in UpdateInputs : Arrives /\ handlePlayerUpdate(p, data)
  \/ \E p \in Ids, data \in FireInputs :
       Arrives /\ Len(bullets) < MaxLive /\ handlePlayerFire(p, data)
  \/ \E p \in Ids : Arrives /\ handlePlayerReload(p)
  \/ \E p \in Ids : Arrives /\ handleDisconnect(p)
  \/ \E i \in 1..Len(timers) : Internal /\ ReloadTimerFires(i)
  \/ \E i \in 1..Len(timers), rnd \in RandomPairs : Internal /\ RespawnTimerFires(i, rnd)
  \/ Internal /\ updateGameState
  \/ Internal /\ startCleanupLoop
  \/ Internal /\ sendClientUpdates
  \/ Internal /\ Advance

Spec == Init /\ [][Next]_vars

\* ------------------------------------------------- a server with a full store
\* CapOwners players have each fired every FIRE_INTERVAL for the last CapRounds
\* rounds, in the order of their ids, while the game loop ticked every DELTA_MS:
\* the store holds MAX_BULLETS of their bullets, or up to CapSlack fewer, none
\* older than BULLET_LIFETIME.
CapRounds == (MAX_BULLETS + CapOwners - 1) \div CapOwners

CapOwner(k) == ((k - 1) % CapOwners) + 1

CapFiredAt(k) == StartTime - FIRE_INTERVAL * (CapRounds - ((k - 1) \div CapOwners))

CapBullet(k) ==
  [NewBullet(CapOwner(k), Pos(MAP_LIMIT, SPAWN_Y, 0), Vec(1, 0, 0), CapFiredAt(k))
     EXCEPT !.position.x = @ + ((StartTime - CapFiredAt(k)) \div DELTA_MS) * ((BULLET_SPEED * DELTA_MS) \div 100)]

CapShots(p, n) == Cardinality({k \in 1..n : CapOwner(k) = p})

CapLastShot(p, n) == CHOOSE k \in 1..n : CapOwner(k) = p /\ \A j \in (k + 1)..n : CapOwner(j) # p

CapPlayer(p, n) ==
  [NewPlayer(p, StartTime - BULLET_LIFETIME) EXCEPT !.ammo = MAG_SIZE - CapShots(p, n),
                                                  !.lastFireTime = CapFiredAt(CapLastShot(p, n))]

InitCap ==
  /\ now = StartTime
  /\ sockets = 1..CapOwners
  /\ players = [i \in 1..CapOwners |-> i]
  /\ joined = CapOwners
  /\ \E n \in (MAX_BULLETS - CapSlack)..MAX_BULLETS :
       /\ bullets = [k \in 1..n |-> CapBullet(k)]
       /\ obj = [p \in 1..CapOwners |-> CapPlayer(p, n)]
  /\ requests = 0
  /\ timers = << >>
  /\ tick = 0
  /\ out = << >>
  /\ ev = [op |-> "init", p |-> 0, raised |-> FALSE, data |-> NoData]

NextCap ==
  \/ \E p \in Ids, data \in FireInputs : Arrives /\ handlePlayerFire(p, data)
  \/ \E p \in Ids : Arrives /\ handleDisconnect(p)
  \/ Internal /\ updateGameState
  \/ Internal /\ startCleanupLoop
  \/ Internal /\ now < StartTime + CapHorizon /\ Advance

SpecCap == InitCap /\ [][NextCap]_vars

\* ------------------------------------------- a server with a dead player
\* PendingSince ago player 1's fourth bullet killed player 2, which had fired five
\* times and reloaded never: player 2 waits for its respawn.
Killer == [NewPlayer(1, StartTime - PendingSince)
             EXCEPT !.ammo = MAG_SIZE - START_HEALTH \div BULLET_DAMAGE,
                    !.lastFireTime = StartTime - PendingSince,
                    !.kills = 1]

Killed == [NewPlayer(2, StartTime - PendingSince)
             EXCEPT !.ammo = MAG_SIZE - 5,
                    !.lastFireTime = StartTime - PendingSince,
                    !.health = 0,
                    !.deaths = 1]

InitPending ==
  /\ now = StartTime
  /\ sockets = {1, 2}
  /\ players = <<1, 2>>
  /\ joined = 2
  /\ obj = [p \in {1, 2} |-> IF p = 1 THEN Killer ELSE Killed]
  /\ requests = 0
  /\ bullets = << >>
  /\ timers = << [kind |-> "respawn", p |-> 2, due |-> StartTime - PendingSince + RESPAWN_DELAY] >>
  /\ tick = 0
  /\ out = << >>
  /\ ev = [op |-> "init", p |-> 0, raised |-> FALSE, data |-> NoData]

\* as Next, without new connections
NextPending ==
  \/ \E p \in Ids, data \in UpdateInputs : Arrives /\ handlePlayerUpdate(p, data)
  \/ \E p \in Ids, data \in FireInputs :
       Arrives /\ Len(bullets) < MaxLive /\ handlePlayerFire(p, data)
  \/ \E p \in Ids : Arrives /\ handlePlayerReload(p)
  \/ \E p \in Ids : Arrives /\ handleDisconnect(p)
  \/ \E i \in 1..Len(timers) : Internal /\ ReloadTimerFires(i)
  \/ \E i \in 1..Len(timers), rnd \in RandomPairs : Internal /\ RespawnTimerFires(i, rnd)
  \/ Internal /\ updateGameState
  \/ Internal /\ startCleanupLoop
  \/ Internal /\ sendClientUpdates
  \/ Internal /\ Advance

SpecPending == InitPending /\ [][NextPending]_vars

\* ------------------------------------------------ peers that send anything
\* the payloads a peer can put into a player-update: none, no usable position,
\* positions on and beyond the limits of the map, and velocities below, at and
\* above maxSpeed, beyond the range of a double's square, and of no numbers
InputVelocities ==
  { Vel("centi", 30, 40), Vel("centi", -60, 80), Vel("huge", 1, 0), Vel("text", 0, 0) }

InputUpdates ==
  { NoData,
    UpdateData(NoPos, Vec(0, 90, 0), Vel("centi", 0, 0)),
    UpdateData(Pos(MAP_LIMIT, SPAWN_Y, -MAP_LIMIT), NoRot, NoVel),
    UpdateData(Pos(MAP_LIMIT + 1, SPAWN_Y, 0), Vec(0, 90, 0), Vel("centi", 0, 0)),
    UpdateData(Pos(0, SPAWN_Y, -(MAP_LIMIT + 1)), Vec(0, 90, 0), Vel("centi", 0, 0)) }
  \cup {UpdateData(Pos(10, SPAWN_Y, 10), Vec(0, 90, 0), v) : v \in InputVelocities}

InputFires ==
  { NoData,
    FireData(NoPos, Vec(1, 0, 0)),
    FireData(Pos(MAP_LIMIT + 1, SPAWN_Y, 0), Vec(1, 0, 0)),
    FireData(Pos(-16, SPAWN_Y, 0), Vec(1, 0, 0)) }

\* the players of Init that still have their reserve
InputProfiles == {f \in Profiles : f.totalAmmo = RESERVE_SIZE}

InitInput ==
  /\ now = StartTime
  /\ \E n \in 0..MaxPlayers :
       /\ sockets = 1..n
       /\ players = [i \in 1..n |-> i]
       /\ joined = n
       /\ \E f \in [1..n -> InputProfiles] : obj = [p \in 1..n |-> Veteran(p, f[p])]
  /\ requests = 0
  /\ bullets = << >>
  /\ timers = << >>
  /\ tick = 0
  /\ out = << >>
  /\ ev = [op |-> "init", p |-> 0, raised |-> FALSE, data |-> NoData]

NextInput ==
  \/ \E p \in Ids, data \in InputUpdates : Arrives /\ handlePlayerUpdate(p, data)
  \/ \E p \in Ids, data \in InputFires :
       Arrives /\ Len(bullets) < MaxLive /\ handlePlayerFire(p, data)
  \/ \E p \in Ids : Arrives /\ handlePlayerReload(p)
  \/ \E i \in 1..Len(timers) : Internal /\ ReloadTimerFires(i)
  \/ Internal /\ updateGameState
  \/ Internal /\ Advance

SpecInput == InitInput /\ [][NextInput]_vars

\* ------------------------------------------------ a bullet with two players ahead
\* CrowdSize players stand on the spawn point, sound or one hit from death, and
\* fire from one or two ticks in front of it: a bullet reaches all the others in
\* the same tick, and the store's order decides.
CrowdIds == 1..CrowdSize

CrowdProfiles == {f \in Profiles : f.ammo = MAG_SIZE \/ f.health = BULLET_DAMAGE}

CrowdFires ==
  { FireData(Pos(-16, SPAWN_Y, 0), Vec(1, 0, 0)),
    FireData(Pos(-8, SPAWN_Y, 0), Vec(1, 0, 0)) }

InitCrowd ==
  /\ now = StartTime
  /\ sockets = CrowdIds
  /\ players = [i \in CrowdIds |-> i]
  /\ joined = CrowdSize
  /\ \E f \in [CrowdIds -> CrowdProfiles] : obj = [p \in CrowdIds |-> Veteran(p, f[p])]
  /\ requests = 0
  /\ bullets = << >>
  /\ timers = << >>
  /\ tick = 0
  /\ out = << >>
  /\ ev = [op |-> "init", p |-> 0, raised |-> FALSE, data |-> NoData]

NextCrowd ==
  \/ \E p \in CrowdIds, data \in CrowdFires :
       Arrives /\ Len(bullets) < MaxLive /\ handlePlayerFire(p, data)
  \/ \E i \in 1..Len(timers) : Internal /\ ReloadTimerFires(i)
  \/ \E i \in 1..Len(timers), rnd \in RandomPairs : Internal /\ RespawnTimerFires(i, rnd)
  \/ Internal /\ updateGameState
  \/ Internal /\ Advance

SpecCrowd == InitCrowd /\ [][NextCrowd]_vars

\* ------------------------------------------- a server whose loops keep running
\* setInterval keeps calling updateGameState, Date.now() keeps growing and a
\* setTimeout callback runs once it is due.  The peers send MaxRequests requests;
\* time is followed as far as bullets and timers reach, and ticks beyond MaxTick
\* are followed when they find a bullet past its lifetime.
LaterLive == {t \in Instants : t > now}

AdvanceLive ==
  /\ \A i \in 1..Len(timers) : timers[i].due > now
  /\ LaterLive # {}
  /\ now' = CHOOSE t \in LaterLive : \A u \in LaterLive : t <= u
  /\ out' = << >>
  /\ ev' = [op |-> "advance", p |-> 0, raised |-> FALSE, data |-> NoData]
  /\ UNCHANGED <<sockets, players, obj, bullets, timers, tick, joined>>

updateGameStateLive ==
  /\ tick < MaxTick \/ \E i \in 1..Len(bullets) : Expired(bullets[i], now)
  /\ \E after \in {GameStateAfter(now)} :
       /\ tick' = tick + 1
       /\ bullets' = after.bullets
       /\ timers' = after.timers
       /\ players' = after.players
       /\ obj' = after.obj
       /\ out' = after.out
  /\ ev' = [op |-> "tick", p |-> 0, raised |-> FALSE, data |-> NoData]
  /\ UNCHANGED <<now, sockets, joined>>

InitLive ==
  /\ now = StartTime
  /\ sockets = Ids
  /\ players = [i \in Ids |-> i]
  /\ joined = MaxPlayers
  /\ \E f \in [Ids -> Profiles] : obj = [p \in Ids |-> Veteran(p, f[p])]
  /\ requests = 0
  /\ bullets = << >>
  /\ timers = << >>
  /\ tick = 0
  /\ out = << >>
  /\ ev = [op |-> "init", p |-> 0, raised |-> FALSE, data |-> NoData]

ReloadTimerRuns == \E i \in 1..Len(timers) : Internal /\ ReloadTimerFires(i)

RespawnTimerRuns == \E i \in 1..Len(timers), rnd \in RandomPairs : Internal /\ RespawnTimerFires(i, rnd)

GameLoopRuns == Internal /\ updateGameStateLive

TimePasses == Internal /\ AdvanceLive

NextLive ==
  \/ \E p \in Ids, data \in UpdateInputs : Arrives /\ handlePlayerUpdate(p, data)
  \/ \E p \in Ids, data \in FireInputs :
       Arrives /\ Len(bullets) < MaxLive /\ handlePlayerFire(p, data)
  \/ \E p \in Ids : Arrives /\ handlePlayerReload(p)
  \/ \E p \in Ids : Arrives /\ handleDisconnect(p)
  \/ ReloadTimerRuns
  \/ RespawnTimerRuns
  \/ GameLoopRuns
  \/ Internal /\ startCleanupLoop
  \/ TimePasses

SpecLive ==
  /\ InitLive /\ [][NextLive]_vars
  /\ WF_vars(GameLoopRuns) /\ WF_vars(TimePasses)
  /\ WF_vars(ReloadTimerRuns) /\ WF_vars(RespawnTimerRuns)

\* ==================================================================== claims
\* what a step did
Msgs(o, type) == SelectSeq(o, LAMBDA m : m.type = type)

Stored(p) == p \in Range(players)

StoreUnchanged ==
  /\ players' = players
  /\ \A q \in Range(players) : obj'[q] = obj[q]
  /\ bullets' = bullets

\* the guards of a fire request, from the request's point of view
MayFire(p) ==
  /\ Stored(p)
  /\ obj[p].health > 0
  /\ ~obj[p].isReloading
  /\ obj[p].ammo > 0
  /\ now - obj[p].lastFireTime >= 100

FireRefused ==
  /\ StoreUnchanged
  /\ timers' = timers
  /\ Msgs(out', "player-fired") = << >>

FireDone(p) ==
  /\ obj'[p].ammo = obj[p].ammo - 1
  /\ Len(Msgs(out', "player-fired")) = 1

\* C1: a fire request that violates a guard (player absent, health <= 0, reloading,
\* ammo = 0, or fewer than 100 ms since that player's last successful fire) changes
\* neither the players nor the projectile store, sets no timer and publishes no
\* player-fired message; a request that violates none of them succeeds, whatever
\* the other players fired and when.
C1_FireGuards ==
  [][ev'.op = "fire" => IF MayFire(ev'.p) THEN FireDone(ev'.p) ELSE FireRefused]_vars

\* a request refused by the rate limit alone, 99 ms after the player's last fire
C1_Witness ==
  /\ ev.op = "fire"
  /\ out = << >>
  /\ Stored(ev.p)
  /\ obj[ev.p].health > 0 /\ ~obj[ev.p].isReloading /\ obj[ev.p].ammo > 0
  /\ now - obj[ev.p].lastFireTime = 99

\* C2: a successful fire takes exactly 1 from the shooter's ammo, records now as the
\* shooter's last-fire time, appends exactly one projectile owned by the shooter
\* (speed 50, damage 25, lifetime 3000 ms, createdAt = now) and publishes exactly
\* one message, a player-fired to all peers with the shooter's remaining ammo; no
\* other player's record changes.
C2_FireEffect ==
  [][(ev'.op = "fire" /\ MayFire(ev'.p)) =>
       LET p == ev'.p
           b == bullets'[Len(bullets')]
       IN  /\ obj'[p].ammo = obj[p].ammo - 1
           /\ obj'[p].lastFireTime = now
           /\ obj'[p].totalAmmo = obj[p].totalAmmo
           /\ obj'[p].health = obj[p].health
           /\ Len(bullets) < MAX_BULLETS => bullets' = Append(bullets, b)
           /\ b.playerId = p /\ b.speed = 50 /\ b.damage = 25 /\ b.lifetime = 3000
           /\ b.createdAt = now
           /\ \A i \in 1..Len(bullets) : bullets[i].id # b.id
           /\ Len(out') = 1
           /\ out'[1].type = "player-fired" /\ out'[1].to = "all"
           /\ out'[1].playerId = p /\ out'[1].bulletId = b.id
           /\ out'[1].ammo = obj'[p].ammo
           /\ players' = players
           /\ DOMAIN obj' = DOMAIN obj
           /\ \A q \in DOMAIN obj \ {p} : obj'[q] = obj[q]]_vars

\* a fire that succeeded while another player is in the store
C2_Witness ==
  /\ ev.op = "fire"
  /\ Len(out) = 1 /\ out[1].type = "player-fired"
  /\ Len(players) = 2
  /\ \E i \in 1..Len(bullets) : bullets[i].playerId = ev.p /\ bullets[i].createdAt = now

\* C3: the reload completion runs 2000 ms after the player entered Reloading (the
\* timer is set for now + 2000 in the step that sets the flag, and runs at the
\* instant it is due); for a player in the store it moves exactly
\* min(30 - ammo, reserve) from reserve to ammo, clears the flag and publishes one
\* message, reload-complete with the new ammo and reserve, to the owning player.
C3_ReloadCompletion ==
  [][/\ \A p \in Range(players) :
          (p \in DOMAIN obj' /\ ~obj[p].isReloading /\ obj'[p].isReloading) =>
             timers' = Append(timers, [kind |-> "reload", p |-> p, due |-> now + 2000])
     /\ (ev'.op = "reloadTimer" /\ Stored(ev'.p)) =>
          LET p == ev'.p
              need == 30 - obj[p].ammo
              moved == IF need < obj[p].totalAmmo THEN need ELSE obj[p].totalAmmo
          IN  /\ \E i \in 1..Len(timers) :
                    /\ timers[i] = [kind |-> "reload", p |-> p, due |-> now]
                    /\ timers' = RemoveAt(timers, i)
              /\ obj'[p] = [obj[p] EXCEPT !.ammo = @ + moved, !.totalAmmo = @ - moved,
                                          !.isReloading = FALSE]
              /\ obj'[p].ammo + obj'[p].totalAmmo = obj[p].ammo + obj[p].totalAmmo
              /\ out' = << [type |-> "reload-complete", to |-> p, ammo |-> obj'[p].ammo,
                            totalAmmo |-> obj'[p].totalAmmo] >>
              /\ \A q \in Range(players) \ {p} : obj'[q] = obj[q]
              /\ players' = players /\ bullets' = bullets]_vars

\* the spec's example: ammo = 0, reserve = 120 has become ammo = 30, reserve = 90
C3_Witness ==
  /\ ev.op = "reloadTimer"
  /\ Stored(ev.p)
  /\ obj[ev.p].ammo = 30 /\ obj[ev.p].totalAmmo = 90 /\ ~obj[ev.p].isReloading
  /\ Len(out) = 1 /\ out[1].type = "reload-complete" /\ out[1].to = ev.p

\* C4: when the reload timer of a player that is no longer in the store runs, the
\* player and projectile stores are unchanged and no reload-complete notification
\* goes out to a connected peer.
C4_AbsentReloadSilent ==
  [][(ev'.op = "reloadTimer" /\ ~Stored(ev'.p)) =>
       /\ StoreUnchanged
       /\ \A i \in 1..Len(out') : out'[i].type = "reload-complete" => out'[i].to \notin sockets]_vars

\* C5: when the respawn timer of a player that has left the store runs, no store
\* state changes and no player-respawned notification is published for the player.
C5_AbsentRespawnSilent ==
  [][(ev'.op = "respawnTimer" /\ ~Stored(ev'.p)) =>
       /\ StoreUnchanged
       /\ Msgs(out', "player-respawned") = << >>]_vars

\* the bullets a tick tests for collisions: those of the store, moved, that the
\* tick's expiry left
Flying == SelectSeq([i \in 1..Len(bullets) |-> Moved(bullets[i])],
                    LAMBDA b : ~(now - b.createdAt > 3000))

InReach(b, q) ==
  /\ q # b.playerId
  /\ obj[q].health > 0
  /\ DistanceSquared(b.position, obj[q].position) < 8 * 8

\* the first player of the store, in insertion order, within reach of b; 0 if none
Target(b) ==
  IF \E i \in 1..Len(players) : InReach(b, players[i])
    THEN players[CHOOSE i \in 1..Len(players) :
                   InReach(b, players[i]) /\ \A j \in 1..(i - 1) : ~InReach(b, players[j])]
    ELSE 0

\* C6: in a tick, a projectile within 0.8 of a player that is not its owner and has
\* health > 0 leaves the store, and the first such player loses exactly 25 health,
\* with one player-hit notification (victim, shooter, damage, resulting health,
\* projectile id).  Stated for the first projectile of the tick that is within
\* reach of somebody, for which the players are as they were when the tick began.
C6_HitResolved ==
  [][ev'.op = "tick" =>
       \A k \in 1..Len(Flying) :
         (Target(Flying[k]) # 0 /\ \A j \in 1..(k - 1) : Target(Flying[j]) = 0) =>
            LET b == Flying[k]
                v == Target(b)
                told == SelectSeq(Msgs(out', "player-hit"), LAMBDA m : m.bulletId = b.id)
            IN  /\ \A i \in 1..Len(bullets') : bullets'[i].id # b.id
                /\ Len(told) = 1
                /\ told[1].hitPlayerId = v /\ told[1].shooterId = b.playerId
                /\ told[1].damage = 25 /\ told[1].newHealth = obj[v].health - 25
                /\ v \in DOMAIN obj' => obj'[v].health <= obj[v].health - 25]_vars

Fatal(o) == SelectSeq(Msgs(o, "player-hit"), LAMBDA m : m.newHealth <= 0)

Times(s, Test(_)) == Len(SelectSeq(s, Test))

RespawnsSet(ts, q) == Times(ts, LAMBDA t : t.kind = "respawn" /\ t.p = q)

\* C7: in a tick, for every hit that brings the victim's health to <= 0 the victim's
\* deaths and the shooter's kills go up by exactly 1, exactly one player-killed is
\* published and exactly one respawn timer is set for the victim; hits that leave
\* health > 0, and every step that is not a tick, change no counter and set none.
C7_KillAccounting ==
  [][LET fatal == Fatal(out')
         both == Range(players) \cap DOMAIN obj'
     IN  IF ev'.op = "tick"
           THEN /\ Len(timers') >= Len(timers)
                /\ SubSeq(timers', 1, Len(timers)) = timers
                /\ \A q \in both :
                     /\ obj'[q].deaths = obj[q].deaths + Times(fatal, LAMBDA m : m.hitPlayerId = q)
                     /\ obj'[q].kills = obj[q].kills + Times(fatal, LAMBDA m : m.shooterId = q)
                /\ \A q \in Ids :
                     LET died == Times(fatal, LAMBDA m : m.hitPlayerId = q)
                     IN  /\ died <= 1
                         /\ Times(Msgs(out', "player-killed"), LAMBDA m : m.killedPlayerId = q) = died
                         /\ RespawnsSet(timers', q) = RespawnsSet(timers, q) + died
                /\ Len(Msgs(out', "player-killed")) = Len(fatal)
                /\ \A i \in 1..Len(Msgs(out', "player-hit")) :
                     LET m == Msgs(out', "player-hit")[i]
                     IN  m.newHealth = obj[m.hitPlayerId].health - 25 * Times(SubSeq(Msgs(out', "player-hit"), 1, i),
                                                                          LAMBDA n : n.hitPlayerId = m.hitPlayerId)
           ELSE /\ Msgs(out', "player-hit") = << >>
                /\ Msgs(out', "player-killed") = << >>
                /\ \A q \in both : obj'[q].deaths = obj[q].deaths /\ obj'[q].kills = obj[q].kills
                /\ \A q \in Ids : RespawnsSet(timers', q) <= RespawnsSet(timers, q)]_vars

\* a tick in which a hit killed: one death, one kill, one timer
C7_Witness ==
  /\ ev.op = "tick"
  /\ \E i \in 1..Len(out) :
       /\ out[i].type = "player-killed"
       /\ Stored(out[i].killedPlayerId) /\ Stored(out[i].killerId)
       /\ obj[out[i].killedPlayerId].deaths = 1
       /\ obj[out[i].killedPlayerId].health <= 0
       /\ obj[out[i].killerId].kills = 1
       /\ RespawnsSet(timers, out[i].killedPlayerId) = 1

\* C8: the respawn timer is set for 3000 ms after the kill and runs at that instant;
\* for a player still in the store it sets health = maxHealth = 100, ammo = 30,
\* reserve = 120, clears the reloading flag, puts the player at x, z within
\* [-25, 25] at height 1.8, leaves kills and deaths alone and publishes one
\* player-respawned; while the timer is pending the player's health is <= 0, and
\* only the respawn raises it.
C8_Respawn ==
  [][/\ (ev'.op = "respawnTimer" /\ Stored(ev'.p)) =>
          LET p == ev'.p
          IN  /\ \E i \in 1..Len(timers) :
                    /\ timers[i] = [kind |-> "respawn", p |-> p, due |-> now]
                    /\ timers' = RemoveAt(timers, i)
              /\ obj[p].health <= 0
              /\ obj'[p].health = 100 /\ obj'[p].health = obj'[p].maxHealth
              /\ obj'[p].ammo = 30 /\ obj'[p].totalAmmo = 120 /\ ~obj'[p].isReloading
              /\ obj'[p].position.x >= -250 /\ obj'[p].position.x <= 250
              /\ obj'[p].position.z >= -250 /\ obj'[p].position.z <= 250
              /\ obj'[p].position.y = 18
              /\ obj'[p].kills = obj[p].kills /\ obj'[p].deaths = obj[p].deaths
              /\ out' = << [type |-> "player-respawned", to |-> "all", playerId |-> p,
                            position |-> obj'[p].position, health |-> 100] >>
              /\ \A q \in Range(players) \ {p} : obj'[q] = obj[q]
              /\ players' = players /\ bullets' = bullets
     /\ \A i \in (Len(timers) + 1)..Len(timers') :
          timers'[i].kind = "respawn" => timers'[i].due = now + 3000
     /\ \A i \in 1..Len(timers') :
          timers'[i].kind = "respawn" =>
             /\ timers'[i].due >= now'
             /\ timers'[i].p \in Range(players') => obj'[timers'[i].p].health <= 0
     /\ \A q \in Range(players) \cap Range(players') :
          (obj[q].health <= 0 /\ obj'[q].health > 0) => (ev'.op = "respawnTimer" /\ ev'.p = q)]_vars

\* a player of the store that died once and has just been respawned
C8_Witness ==
  /\ ev.op = "respawnTimer"
  /\ Stored(ev.p)
  /\ obj[ev.p].health = 100 /\ obj[ev.p].deaths = 1 /\ obj[ev.p].ammo = 30
  /\ Len(out) = 1 /\ out[1].type = "player-respawned"

Ids_of(bs) == {bs[i].id : i \in 1..Len(bs)}

\* C10: ticks and sweeps expire by the one rule now - createdAt > lifetime: a
\* projectile created at t is expired by no tick or sweep at a time <= t + 3000, is
\* gone after a tick or sweep at a time >= t + 3001, a second sweep at the same
\* time removes nothing more, and each projectile removed for expiry has a
\* bullet-expired notification with its id published.
C10_Expiry ==
  [][/\ ev'.op \in {"tick", "sweep"} =>
          \A i \in 1..Len(bullets) :
            LET b == bullets[i]
                told == \E k \in 1..Len(out') :
                           out'[k].type = "bullet-expired" /\ out'[k].bulletId = b.id
            IN  IF now <= b.createdAt + 3000
                  THEN /\ ~told
                       /\ ev'.op = "sweep" => b.id \in Ids_of(bullets')
                  ELSE /\ b.id \notin Ids_of(bullets')
                       /\ told
     /\ (ev.op = "sweep" /\ ev'.op = "sweep" /\ now' = now) => bullets' = bullets]_vars

\* the same without the notification of the sweep's removals
C10_ExpiryRule ==
  [][/\ ev'.op \in {"tick", "sweep"} =>
          \A i \in 1..Len(bullets) :
            LET b == bullets[i]
                told == \E k \in 1..Len(out') :
                           out'[k].type = "bullet-expired" /\ out'[k].bulletId = b.id
            IN  IF now <= b.createdAt + 3000
                  THEN /\ ~told
                       /\ ev'.op = "sweep" => b.id \in Ids_of(bullets')
                  ELSE /\ b.id \notin Ids_of(bullets')
                       /\ told <=> ev'.op = "tick"
     /\ (ev.op = "sweep" /\ ev'.op = "sweep" /\ now' = now) => bullets' = bullets]_vars

\* C9: the store never holds more than 500 projectiles.  A fire that appends to a
\* store of 500 removes exactly one projectile, the one with the lowest createdAt
\* and, among those, the first inserted, which is not the one just created, and
\* leaves 500; a fire on a store below 500 only appends.
C9_Capacity ==
  [][/\ Len(bullets) <= 500 /\ Len(bullets') <= 500
     /\ (ev'.op = "fire" /\ out' # << >>) =>
          LET new == bullets'[Len(bullets')]
          IN  /\ Len(bullets') >= 1
              /\ new.id = out'[1].bulletId /\ new.createdAt = now
              /\ IF Len(bullets) < 500
                   THEN bullets' = Append(bullets, new)
                   ELSE /\ Len(bullets') = 500
                        /\ \E i \in 1..Len(bullets) :
                             /\ \A j \in 1..Len(bullets) : bullets[i].createdAt <= bullets[j].createdAt
                             /\ \A j \in 1..(i - 1) : bullets[j].createdAt > bullets[i].createdAt
                             /\ bullets[i].createdAt <= new.createdAt
                             /\ bullets' = Append(RemoveAt(bullets, i), new)]_vars

\* the first request to a server holding 500 is a fire: the first bullet of the
\* first round is gone, the second is now the oldest, the new one is the last
C9_Witness ==
  /\ ev.op = "fire" /\ requests = 1 /\ tick = 0
  /\ Len(bullets) = 500
  /\ bullets[500].createdAt = now /\ bullets[500].id = out[1].bulletId
  /\ bullets[1].playerId = 2 /\ bullets[1].createdAt = CapFiredAt(1)

C12_HealthBounds ==
  \A p \in Range(players) :
    /\ obj[p].health >= 0
    /\ obj[p].health <= obj[p].maxHealth
    /\ obj[p].maxHealth = 100

\* a tick with two projectiles at a player of health 25: the first killed it, the
\* second is still in the store, within hit radius
C12_Witness ==
  /\ ev.op = "tick"
  /\ \E p \in Range(players) :
       /\ obj[p].health = 0 /\ obj[p].deaths = 1
       /\ \E i \in 1..Len(out) : out[i].type = "player-hit" /\ out[i].hitPlayerId = p
       /\ \E i \in 1..Len(bullets) :
            /\ bullets[i].playerId # p
            /\ DistanceSquared(bullets[i].position, obj[p].position) < 8 * 8

\* C13: every player in the store is alive (health > 0) with no respawn timer
\* outstanding, or dead (health <= 0) with exactly one.
C13_RespawnPending ==
  \A p \in Range(players) :
    \/ obj[p].health > 0 /\ RespawnsSet(timers, p) = 0
    \/ obj[p].health <= 0 /\ RespawnsSet(timers, p) = 1

\* a dead player, waiting for its respawn, has asked for a reload
C13_Witness ==
  /\ ev.op = "reload"
  /\ Stored(ev.p)
  /\ obj[ev.p].health <= 0 /\ obj[ev.p].isReloading
  /\ RespawnsSet(timers, ev.p) = 1

\* C14: every player in the store whose reloading flag is clear has
\* 0 <= ammo <= 30, whatever the order of fires, reloads, reload timers, deaths and
\* respawns, a reload timer that runs after a respawn included.
C14_AmmoBounds ==
  \A p \in Range(players) :
    ~obj[p].isReloading => (obj[p].ammo >= 0 /\ obj[p].ammo <= 30)

\* a dead player asked for a reload, was respawned with a full magazine and fired
\* once; now the reload timer has run
C14_Witness ==
  /\ ev.op = "reloadTimer"
  /\ Stored(ev.p)
  /\ obj[ev.p].deaths = 1 /\ obj[ev.p].health = 100
  /\ obj[ev.p].ammo = 30 /\ obj[ev.p].totalAmmo = 119
  /\ ~obj[ev.p].isReloading

\* C15: a player-update is applied (position, rotation, velocity and lastUpdate
\* replaced) if and only if its sender is in the store and its position has
\* numbers x and z with |x| <= 1000 and |z| <= 1000; any other update leaves the
\* sender's record, lastUpdate included, as it was; no update changes anything
\* else or publishes anything.  (What the velocity is replaced by is C18's.)
C15_UpdateValidation ==
  [][ev'.op = "update" =>
       LET p == ev'.p
           d == ev'.data
           valid == /\ d.given
                    /\ d.position.wellFormed
                    /\ d.position.x >= -10000 /\ d.position.x <= 10000
                    /\ d.position.z >= -10000 /\ d.position.z <= 10000
       IN  /\ out' = << >>
           /\ players' = players /\ bullets' = bullets /\ timers' = timers /\ tick' = tick
           /\ DOMAIN obj' = DOMAIN obj
           /\ \A q \in DOMAIN obj \ {p} : obj'[q] = obj[q]
           /\ IF Stored(p) /\ valid
                THEN /\ obj'[p] = [obj[p] EXCEPT !.position = Vec(d.position.x, d.position.y, d.position.z),
                                                 !.rotation = d.rotation,
                                                 !.velocity = obj'[p].velocity,
                                                 !.lastUpdate = now]
                     /\ d.velocity.kind = "none" => obj'[p].velocity = Vel("centi", 0, 0)
                     /\ d.velocity.kind = "text" => obj'[p].velocity = d.velocity
                ELSE obj' = obj]_vars

\* an update on the limit of the map, with no rotation and no velocity, applied
C15_Witness ==
  /\ ev.op = "update" /\ ev.data.given
  /\ ev.data.position.x = MAP_LIMIT /\ ev.data.position.z = -MAP_LIMIT
  /\ Stored(ev.p)
  /\ obj[ev.p].position = Vec(10000, SPAWN_Y, -10000)
  /\ obj[ev.p].rotation = NoRot
  /\ obj[ev.p].lastUpdate = now /\ now > StartTime

ValidPayloadPosition(d) ==
  /\ d.given
  /\ d.position.wellFormed
  /\ d.position.x >= -10000 /\ d.position.x <= 10000
  /\ d.position.z >= -10000 /\ d.position.z <= 10000

\* C16: a fire request whose position is missing, has an x or z that is no number,
\* or lies outside |x| <= 1000, |z| <= 1000 creates no projectile, leaves the
\* shooter's ammo as it was and publishes nothing; every projectile added to the
\* store comes from a request with a valid position.
C16_FireValidated ==
  [][(ev'.op = "fire" /\ ev'.data.given) =>
       /\ ~ValidPayloadPosition(ev'.data) =>
             /\ bullets' = bullets
             /\ out' = << >>
             /\ Stored(ev'.p) => obj'[ev'.p].ammo = obj[ev'.p].ammo
       /\ Len(bullets') > Len(bullets) => ValidPayloadPosition(ev'.data)]_vars

\* C17: no player-update, player-fire or player-reload event, one without payload,
\* without position or with a velocity of no numbers included, makes its handler
\* raise an error.
C17_NoError ==
  [][ev'.op \in {"update", "fire", "reload"} => ~ev'.raised]_vars

SubmittedTooFast(v) ==
  \/ v.kind = "centi" /\ v.x * v.x + v.z * v.z > 50 * 50
  \/ v.kind = "huge" /\ (v.x # 0 \/ v.z # 0)

\* C18: an applied update with a velocity of horizontal speed > 0.5 stores a
\* velocity of speed exactly 0.5 and the same direction; one with a velocity of
\* speed <= 0.5 stores that velocity; an update with a valid position from a
\* player in the store is applied whatever its velocity.
C18_VelocityClamp ==
  [][(ev'.op = "update" /\ Stored(ev'.p) /\ ValidPayloadPosition(ev'.data)) =>
       LET v == ev'.data.velocity
           w == obj'[ev'.p].velocity
       IN  /\ obj'[ev'.p].lastUpdate = now
           /\ SubmittedTooFast(v) =>
                /\ w.kind = "centi"
                /\ w.x * w.x + w.z * w.z = 50 * 50
                /\ v.x * w.z = v.z * w.x
                /\ v.x * w.x + v.z * w.z > 0
           /\ (v.kind \in {"centi", "huge"} /\ ~SubmittedTooFast(v)) => w = v]_vars

\* the same for the velocities whose squares a double holds
C18_ClampFinite ==
  [][(ev'.op = "update" /\ Stored(ev'.p) /\ ValidPayloadPosition(ev'.data)
        /\ ev'.data.velocity.kind # "huge") =>
       LET v == ev'.data.velocity
           w == obj'[ev'.p].velocity
       IN  /\ obj'[ev'.p].lastUpdate = now
           /\ SubmittedTooFast(v) =>
                /\ w.kind = "centi"
                /\ w.x * w.x + w.z * w.z = 50 * 50
                /\ v.x * w.z = v.z * w.x
                /\ v.x * w.x + v.z * w.z > 0
           /\ (v.kind = "centi" /\ ~SubmittedTooFast(v)) => w = v]_vars

\* C19: a broadcast publishes nothing when the player store is empty and otherwise
\* exactly one game-update to all peers, with every player of the store (id,
\* position, rotation, velocity, health, maxHealth, name, kills, deaths and nothing
\* else), every projectile of the store (id, position, direction) and the tick; it
\* changes neither store nor the tick; no other step publishes a game-update; the
\* tick never decreases, so neither do the ticks of successive broadcasts.
C19_Broadcast ==
  [][/\ tick' >= tick
     /\ ev'.op # "broadcast" => Msgs(out', "game-update") = << >>
     /\ ev'.op = "broadcast" =>
          /\ players' = players /\ obj' = obj /\ bullets' = bullets
          /\ timers' = timers /\ tick' = tick
          /\ IF Len(players) = 0
               THEN out' = << >>
               ELSE /\ Len(out') = 1
                    /\ out'[1].type = "game-update" /\ out'[1].to = "all"
                    /\ out'[1].tick = tick
                    /\ Len(out'[1].players) = Len(players)
                    /\ \A i \in 1..Len(players) :
                         LET pl == obj[players[i]]
                             m == out'[1].players[i]
                         IN  /\ DOMAIN m = {"id", "position", "rotation", "velocity", "health",
                                            "maxHealth", "name", "kills", "deaths"}
                             /\ m.id = players[i] /\ m.position = pl.position
                             /\ m.rotation = pl.rotation /\ m.velocity = pl.velocity
                             /\ m.health = pl.health /\ m.maxHealth = pl.maxHealth
                             /\ m.name = pl.name /\ m.kills = pl.kills /\ m.deaths = pl.deaths
                    /\ Len(out'[1].bullets) = Len(bullets)
                    /\ \A i \in 1..Len(bullets) :
                         out'[1].bullets[i] = [id |-> bullets[i].id,
                                               position |-> bullets[i].position,
                                               direction |-> bullets[i].direction]]_vars

\* a broadcast of two players and a projectile after a tick
C19_Witness ==
  /\ ev.op = "broadcast"
  /\ Len(out) = 1 /\ out[1].type = "game-update"
  /\ Len(out[1].players) = 2 /\ Len(out[1].bullets) >= 1
  /\ out[1].tick >= 1

\* C20: a successful fire that brings ammo to 0 sets the reloading flag and
\* schedules the reload completion in the same step if and only if the reserve is
\* > 0; a successful fire that leaves ammo > 0, or reaches 0 with an empty reserve,
\* leaves the flag clear and schedules nothing.
C20_AutoReload ==
  [][(ev'.op = "fire" /\ MayFire(ev'.p)) =>
       LET p == ev'.p
       IN  /\ obj'[p].ammo = obj[p].ammo - 1
           /\ obj'[p].totalAmmo = obj[p].totalAmmo
           /\ IF obj'[p].ammo = 0 /\ obj[p].totalAmmo > 0
                THEN /\ obj'[p].isReloading
                     /\ timers' = Append(timers, [kind |-> "reload", p |-> p, due |-> now + 2000])
                ELSE /\ ~obj'[p].isReloading
                     /\ timers' = timers]_vars

\* the last round of a magazine with a reserve behind it: reloading, timer set
C20_Witness ==
  /\ ev.op = "fire" /\ Len(out) = 1 /\ out[1].type = "player-fired"
  /\ Stored(ev.p)
  /\ obj[ev.p].ammo = 0 /\ obj[ev.p].totalAmmo > 0
  /\ obj[ev.p].isReloading
  /\ Len(timers) > 0
  /\ timers[Len(timers)] = [kind |-> "reload", p |-> ev.p, due |-> now + RELOAD_DELAY]

\* the guards of a reload request, from the request's point of view
MayReload(p) ==
  /\ Stored(p)
  /\ ~obj[p].isReloading
  /\ obj[p].totalAmmo > 0
  /\ obj[p].ammo < 30

\* C21: an explicit reload request sets the reloading flag and schedules one
\* completion, 2000 ms ahead, if and only if the player is in the store, is not
\* reloading, has reserve > 0 and ammo < 30; every other request changes nothing
\* and schedules nothing; no reload request publishes anything.
C21_ReloadGuards ==
  [][ev'.op = "reload" =>
       LET p == ev'.p
       IN  /\ out' = << >>
           /\ players' = players /\ bullets' = bullets /\ tick' = tick
           /\ IF MayReload(p)
                THEN /\ obj' = [obj EXCEPT ![p].isReloading = TRUE]
                     /\ timers' = Append(timers, [kind |-> "reload", p |-> p, due |-> now + 2000])
                ELSE /\ obj' = obj
                     /\ timers' = timers]_vars

\* a reload asked for with a round left in the magazine
C21_Witness ==
  /\ ev.op = "reload"
  /\ Stored(ev.p)
  /\ obj[ev.p].isReloading
  /\ obj[ev.p].ammo > 0 /\ obj[ev.p].ammo < 30 /\ obj[ev.p].totalAmmo > 0
  /\ Len(timers) > 0
  /\ timers[Len(timers)] = [kind |-> "reload", p |-> ev.p, due |-> now + 2000]

\* the player-hit messages of a step, in the order the hits were resolved
Hits(o) == Msgs(o, "player-hit")

\* the health of q when the k-th hit of the tick is resolved
HealthAt(q, k) ==
  obj[q].health - 25 * Cardinality({j \in 1..(k - 1) : Hits(out')[j].hitPlayerId = q})

\* q is a player bullet b, where the tick moved it, hits at the k-th hit
Matches(b, q, k) ==
  /\ q # b.playerId
  /\ HealthAt(q, k) > 0
  /\ DistanceSquared(b.position, obj[q].position) < 8 * 8

\* C22: in the collision step a projectile never damages its own shooter nor a
\* player whose health is <= 0 when the projectile is tested, a projectile hits at
\* most once per tick and is deleted by its hit, and the player it hits is the
\* first of the store's insertion order that is live, not its shooter and within
\* 0.8 of it; health changes in a tick by the hits published and by nothing else.
C22_CollisionRules ==
  [][ev'.op = "tick" =>
       /\ \A k \in 1..Len(Hits(out')) :
            LET m == Hits(out')[k]
                v == m.hitPlayerId
            IN  /\ v # m.shooterId
                /\ \A j \in 1..Len(Hits(out')) : Hits(out')[j].bulletId = m.bulletId => j = k
                /\ \A i \in 1..Len(bullets') : bullets'[i].id # m.bulletId
                /\ m.newHealth = HealthAt(v, k) - 25
                /\ \E n \in 1..Len(Flying) :
                     /\ Flying[n].id = m.bulletId
                     /\ Flying[n].playerId = m.shooterId
                     /\ \E i \in 1..Len(players) :
                          /\ players[i] = v
                          /\ Matches(Flying[n], v, k)
                          /\ \A h \in 1..(i - 1) : ~Matches(Flying[n], players[h], k)
       /\ \A q \in Range(players) \cap DOMAIN obj' :
            obj'[q].health =
              obj[q].health - 25 * Cardinality({k \in 1..Len(Hits(out')) : Hits(out')[k].hitPlayerId = q})
       /\ \A q \in Range(players) \cap DOMAIN obj' :
            obj[q].health <= 0 => obj'[q].health = obj[q].health]_vars

\* two projectiles of player 1 arrive in one tick: the first kills player 2, the
\* second passes the dead player and hits player 3
C22_Witness ==
  /\ ev.op = "tick"
  /\ Len(Hits(out)) = 2
  /\ Hits(out)[1].shooterId = 1 /\ Hits(out)[1].hitPlayerId = 2 /\ Hits(out)[1].newHealth = 0
  /\ Hits(out)[2].shooterId = 1 /\ Hits(out)[2].hitPlayerId = 3
  /\ bullets = << >>

\* the bullets of the store that the step removed
Removed == SelectSeq(bullets, LAMBDA b : \A i \in 1..Len(bullets') : bullets'[i].id # b.id)

\* the three causes: past its lifetime in a tick or a sweep, within 0.8 of a live
\* player that is not its owner in a tick, or the oldest bullet of a full store at
\* a fire
ByExpiry(b) == ev'.op \in {"tick", "sweep"} /\ now - b.createdAt > 3000

ByCollision(b) ==
  /\ ev'.op = "tick"
  /\ \E q \in Range(players) : InReach(Moved(b), q)

ByCapacity(b) ==
  /\ ev'.op = "fire"
  /\ Len(bullets) + 1 > 500
  /\ \A i \in 1..Len(bullets) : b.createdAt <= bullets[i].createdAt

\* C23: a projectile leaves the store only by expiry (now - createdAt > lifetime),
\* by a collision with a player, or by capacity eviction as the oldest projectile
\* when the fire that adds one brings the count above 500; no other operation
\* removes a projectile.
C23_RemovalCauses ==
  [][\A k \in 1..Len(Removed) :
       ByExpiry(Removed[k]) \/ ByCollision(Removed[k]) \/ ByCapacity(Removed[k])]_vars

\* the same with the fourth cause the code has: the owner disconnects
C23_RemovalCausesAndDisconnect ==
  [][\A k \in 1..Len(Removed) :
       \/ ByExpiry(Removed[k]) \/ ByCollision(Removed[k]) \/ ByCapacity(Removed[k])
       \/ ev'.op = "disconnect" /\ ev'.p = Removed[k].playerId /\ Stored(ev'.p)]_vars

\* the positions in a step's output of the messages of a type
At(o, type) == {i \in 1..Len(o) : o[i].type = type}

Stale(q) == now - obj[q].lastUpdate > 60000

\* C24: each tick adds exactly 1 to the tick counter and no other step changes it;
\* a tick expires projectiles, then resolves collisions, then removes stale
\* players: a projectile past its lifetime gets its bullet-expired and no
\* player-hit, though a live player be within 0.8 of it, and a stale player within
\* reach of a projectile whose shooter is in the store is hit in the tick that
\* removes it, the player-hit coming before its player-left.
C24_TickOrder ==
  [][/\ tick' = IF ev'.op = "tick" THEN tick + 1 ELSE tick
     /\ ev'.op = "tick" =>
          /\ \A i \in At(out', "bullet-expired"), j \in At(out', "player-hit") : i < j
          /\ \A i \in At(out', "player-hit"), j \in At(out', "player-left") : i < j
          /\ \A k \in 1..Len(bullets) :
               now - bullets[k].createdAt > 3000 =>
                 /\ \A i \in 1..Len(bullets') : bullets'[i].id # bullets[k].id
                 /\ \E i \in At(out', "bullet-expired") : out'[i].bulletId = bullets[k].id
                 /\ \A j \in At(out', "player-hit") : out'[j].bulletId # bullets[k].id
          /\ \A k \in 1..Len(Flying) :
               (/\ Target(Flying[k]) # 0
                /\ Stored(Flying[k].playerId)
                /\ \A j \in 1..(k - 1) : Target(Flying[j]) = 0) =>
                  LET v == Target(Flying[k])
                  IN  /\ \E i \in At(out', "player-hit") :
                            out'[i].hitPlayerId = v /\ out'[i].bulletId = Flying[k].id
                      /\ Stale(v) =>
                           /\ v \notin Range(players')
                           /\ \E j \in At(out', "player-left") : out'[j].playerId = v
          /\ \A q \in Range(players) :
               (q \in Range(players')) = ~Stale(q)]_vars

\* a tick that hit a stale player and removed it
C24_Witness ==
  /\ ev.op = "tick"
  /\ \E i \in At(out, "player-hit"), j \in At(out, "player-left") :
        /\ out[i].hitPlayerId = out[j].playerId
        /\ ~Stored(out[j].playerId)
        /\ i < j

ReloadsPending(p) == Times(timers, LAMBDA t : t.kind = "reload" /\ t.p = p)

\* C25: for every player in the store at most one reload completion is pending,
\* and one is pending exactly when the player's reloading flag is set.
C25_OneReloadTimer ==
  \A p \in Range(players) : ReloadsPending(p) = IF obj[p].isReloading THEN 1 ELSE 0

\* its consequence: a completion moves ammo only for a player whose flag is set
C25_CompletionFindsFlag ==
  [][(ev'.op = "reloadTimer" /\ Stored(ev'.p) /\ obj'[ev'.p].ammo # obj[ev'.p].ammo)
       => obj[ev'.p].isReloading]_vars

\* and no player has two completions pending
C25_NoOverlap == \A p \in Range(players) : ReloadsPending(p) <= 1

\* C26: every projectile in the store is owned by a player that is in the store,
\* whichever way players leave it.
C26_BulletsOwned ==
  \A i \in 1..Len(bullets) : Stored(bullets[i].playerId)

\* true of the players that leave by disconnecting
C26_OwnedAfterDisconnect ==
  [][(ev'.op = "disconnect" /\ Stored(ev'.p)) =>
       \A i \in 1..Len(bullets') : bullets'[i].playerId # ev'.p]_vars

Rounds(pl) == pl.ammo + pl.totalAmmo

\* C27: ammunition is conserved.  Every player has ammo >= 0, 0 <= reserve <= 120
\* and ammo + reserve <= 150 in every state; ammo + reserve goes down by exactly 1
\* in a successful fire, is set to exactly 150 by a respawn, and stays as it is in
\* every other step, the start and the completion of a reload among them.
C27_AmmoConserved ==
  /\ [](\A p \in DOMAIN obj :
          /\ obj[p].ammo >= 0
          /\ obj[p].totalAmmo >= 0 /\ obj[p].totalAmmo <= 120
          /\ Rounds(obj[p]) <= 150)
  /\ [][\A p \in DOMAIN obj \cap DOMAIN obj' :
          Rounds(obj'[p]) =
            IF ev'.op = "fire" /\ ev'.p = p /\ MayFire(p) THEN Rounds(obj[p]) - 1
            ELSE IF ev'.op = "respawnTimer" /\ ev'.p = p THEN 150
            ELSE Rounds(obj[p])]_vars

\* a completion that found fewer rounds in the reserve than the magazine lacked
C27_Witness ==
  /\ ev.op = "reloadTimer"
  /\ Stored(ev.p)
  /\ obj[ev.p].ammo = 5 /\ obj[ev.p].totalAmmo = 0
  /\ ~obj[ev.p].isReloading

\* C28: every projectile is eventually removed from the store.  While the game
\* loop keeps ticking and time advances, no projectile older than 3000 ms is left
\* by a tick, a projectile once removed does not come back (every projectile of
\* the store was there before the step or was created in it), and, the peers'
\* requests being finitely many, the store is empty in the end, whatever fire,
\* reload, update, disconnect and timer events come in between.
C28_EventuallyRemoved ==
  /\ [][/\ ev'.op = "tick" => \A i \in 1..Len(bullets') : now' - bullets'[i].createdAt <= 3000
        /\ \A i \in 1..Len(bullets') :
             \/ \E j \in 1..Len(bullets) : bullets[j].id = bullets'[i].id
             \/ ev'.op = "fire" /\ bullets'[i].createdAt = now /\ bullets'[i].playerId = ev'.p]_vars
  /\ <>[](bullets = << >>)

\* the tick that found a bullet past its lifetime and left the store empty
C28_Witness ==
  /\ ev.op = "tick"
  /\ Len(Msgs(out, "bullet-expired")) >= 1
  /\ bullets = << >>
  /\ tick > MaxTick

====
